---- MODULE Spec2Model ----
(***************************************************************************)
(* A model of cn_snapshots.py: the archive loader (load_data), the         *)
(* memoised page fetch (fetch_history_page), the table decoder             *)
(* (parse_table), the snapshot locator (find_snapshot), the paginated      *)
(* resolver (get_snapshot) and the "Fetch & Compare" handler of main().    *)
(*                                                                         *)
(* Strings that the program converts (identifiers, metric cells) are       *)
(* sequences of one-character strings.  A timestamp cell is the record     *)
(* [fmt, date, time]: fmt says whether the text matches                    *)
(* "%Y-%m-%d %H:%M:%S", date and time are what strptime reads from it.     *)
(* The history server answers lazily: the k-th network request for a       *)
(* (nation, page) key is answered by any response the server can give, and   *)
(* the answer is remembered in `served`.                                   *)
(***************************************************************************)
EXTENDS Integers, Sequences, FiniteSets, TLC

VARIABLES
    server,        \* which history server answers (see Universe)
    served,        \* key -> sequence of responses given so far to network requests
    reqs,          \* key -> number of network requests of the current run
    memo,          \* TRUE iff fetch_history_page is memoised (st.cache_data)
    cache,         \* key -> parsed page: the memoised return values
    pc,            \* position in main()
    nation_input,  \* the text area: a sequence of lines
    date1, date2,  \* the two date inputs
    valid_ids, invalid_ids, warning,
    i,             \* index of the current nid in valid_ids
    ruler_name, snap1, snap2,
    page,          \* loop variable of get_snapshot
    results, df_snapshots, df_diffs,
    calls,         \* every fetch_history_page invocation of the run: <<nid, page>>
    scan,          \* the pages the current/last get_snapshot call examined
    ret,           \* how the last get_snapshot call ended
    error,         \* the uncaught exception that ended the run, if any
    first,         \* outputs of the memoised run, kept for the comparison run
    downloads,     \* load_data: the downloads issued, in order
    cand,          \* load_data: index of the next candidate
    df_alliances, alliances, member_ids, apc

vars == <<server, served, reqs, memo, cache, pc, nation_input, date1, date2,
          valid_ids, invalid_ids, warning, i, ruler_name, snap1, snap2, page,
          results, df_snapshots, df_diffs, calls, scan, ret, error, first,
          downloads, cand, df_alliances, alliances, member_ids, apc>>

batchVars == <<server, served, reqs, memo, cache, pc, nation_input, date1,
               date2, valid_ids, invalid_ids, warning, i, ruler_name, snap1,
               snap2, page, results, df_snapshots, df_diffs, calls, scan, ret,
               error, first>>

archiveVars == <<downloads, cand, df_alliances, alliances, member_ids, apc>>

-----------------------------------------------------------------------------
(* Bounds *)

\* Longest cell / identifier string enumerated.
MaxLen == 3
\* Most rows of a history page.
MaxRows == 2
\* Most lines typed in the text area.
MaxLines == 3
\* The page budget handed to get_snapshot (the code's default is 20).
max_pages == 3

-----------------------------------------------------------------------------
(* Values *)

COLUMNS ==
    << "Alliance", "Alliance Rank", "Gov", "Team", "Tech", "Infra", "Land",
       "Mode", "NS", "Defcon", "Soldiers", "Tanks", "Cruise", "Nukes",
       "Off. Casualties", "Def. Casualties", "Votes", "Resource1", "Resource2" >>

ColumnSet == {COLUMNS[k] : k \in 1..Len(COLUMNS)}

\* Python's None as a cell value: a one-element sequence that is no string of Chars.
None == << "None" >>

StringsOver(chars, n) == UNION {[1..k -> chars] : k \in 0..n}

-----------------------------------------------------------------------------
(* int(val) and to_int *)

Digits == {"0", "1", "2", "3", "4", "5", "6", "7", "8", "9"}

DigitValue(c) ==
    CASE c = "0" -> 0 [] c = "1" -> 1 [] c = "2" -> 2 [] c = "3" -> 3
      [] c = "4" -> 4 [] c = "5" -> 5 [] c = "6" -> 6 [] c = "7" -> 7
      [] c = "8" -> 8 [] c = "9" -> 9

\* str.strip(): leading and trailing whitespace removed.
RECURSIVE LStrip(_)
LStrip(s) == IF s # <<>> /\ Head(s) = " " THEN LStrip(Tail(s)) ELSE s

RECURSIVE RStrip(_)
RStrip(s) ==
    IF s # <<>> /\ s[Len(s)] = " " THEN RStrip(SubSeq(s, 1, Len(s) - 1)) ELSE s

Strip(s) == RStrip(LStrip(s))

AllDigits(s) == s # <<>> /\ \A k \in 1..Len(s) : s[k] \in Digits

RECURSIVE DecimalValue(_)
DecimalValue(s) ==
    IF s = <<>> THEN 0
    ELSE 10 * DecimalValue(SubSeq(s, 1, Len(s) - 1)) + DigitValue(s[Len(s)])

\* The text int() accepts: optional surrounding whitespace, an optional sign,
\* one or more digits.
Unsigned(s) == IF s # <<>> /\ Head(s) \in {"-", "+"} THEN Tail(s) ELSE s

IsIntLiteral(s) == AllDigits(Unsigned(Strip(s)))

IntValue(s) ==
    LET t == Strip(s)
    IN  IF Head(t) = "-" THEN 0 - DecimalValue(Unsigned(t))
        ELSE DecimalValue(Unsigned(t))

\* to_int: int(val), and 0 on any exception (None: TypeError; other text:
\* ValueError).
to_int(val) ==
    IF val = None THEN 0
    ELSE IF IsIntLiteral(val) THEN IntValue(val)
    ELSE 0

-----------------------------------------------------------------------------
(* The history server and fetch_history_page *)

\* requests raises these; get_snapshot and main catch only the first two.
HTTPError == "HTTPError"
ReadTimeout == "ReadTimeout"
ConnectTimeout == "ConnectTimeout"
ConnectionError == "ConnectionError"

TransportErrors == {HTTPError, ReadTimeout, ConnectTimeout, ConnectionError}

\* except (HTTPError, ReadTimeout)
Caught == {HTTPError, ReadTimeout}

\* A response: a transport error (exc), or an HTML document (exc = "none")
\* with its <title> tokens, the shape of its striped table and the body rows.
ErrorResponse(e) == [exc |-> e, title |-> <<>>, table |-> "none", rows |-> <<>>]

Document(title, table, rows) ==
    [exc |-> "none", title |-> title, table |-> table, rows |-> rows]

Timestamp(d, t) == [fmt |-> TRUE, date |-> d, time |-> t]

\* Text that "%Y-%m-%d %H:%M:%S" does not match.
BadTimestamp == [fmt |-> FALSE, date |-> 0, time |-> 0]

HistoryRow(ts, v) == [ts |-> ts, cells |-> [c \in ColumnSet |-> v]]

Title(name) == << "Nation data for ", name, " |", " Cyber Nations" >>

\* History rows: two on date 1 (midnight and later, different cells), one on
\* date 2, one whose timestamp does not parse.
SampleRows ==
    { HistoryRow(Timestamp(1, 0), << "1" >>),
      HistoryRow(Timestamp(1, 1), << "2" >>),
      HistoryRow(Timestamp(2, 1), << "1" >>),
      HistoryRow(BadTimestamp, << "1" >>) }

ResolveUniverse ==
    {ErrorResponse(e) : e \in TransportErrors}
    \cup {Document(Title("Ann"), t, <<>>) : t \in {"none", "nothead", "notbody"}}
    \cup {Document(Title("Ann"), "ok", rows) : rows \in StringsOver(SampleRows, MaxRows)}

BatchUniverse ==
    { ErrorResponse(HTTPError), ErrorResponse(ConnectTimeout),
      Document(Title("Ann"), "ok", << HistoryRow(Timestamp(1, 1), << "2" >>) >>) }

CacheUniverse ==
    { ErrorResponse(HTTPError), ErrorResponse(ConnectTimeout),
      Document(Title("Ann"), "ok", << HistoryRow(Timestamp(1, 1), << "2" >>) >>),
      Document(Title("Bob"), "ok", << HistoryRow(Timestamp(2, 0), << "1" >>) >>) }

\* The responses the server can give for a nation.  The batch server knows few
\* responses, and for it nation "2" does not exist (every request: a 404).
Universe(id) ==
    IF server = "any" THEN ResolveUniverse
    ELSE IF server = "documents" THEN {r \in ResolveUniverse : r.exc = "none"}
    ELSE IF server = "two pages" THEN CacheUniverse
    ELSE IF id = << "2" >> THEN {ErrorResponse(HTTPError)}
    ELSE BatchUniverse

\* The URL a page is requested at, and the key st.cache_data memoises under:
\* the arguments (nation_id, page).
UrlKey(nid, p) == <<nid, p>>

\* A memo keyed by the nation alone.
CacheKey_nation_only(nid, p) == <<nid, 1>>

CacheKey(nid, p) == <<nid, p>>

Served(key) == IF key \in DOMAIN served THEN served[key] ELSE <<>>

Reqs(key) == IF key \in DOMAIN reqs THEN reqs[key] ELSE 0

CacheHit(nid, p) == memo /\ CacheKey(nid, p) \in DOMAIN cache

\* What a call fetch_history_page(nid, p) can come back with.
FetchChoices(nid, p) ==
    IF CacheHit(nid, p) THEN {cache[CacheKey(nid, p)]}
    ELSE IF Reqs(UrlKey(nid, p)) < Len(Served(UrlKey(nid, p)))
         THEN {Served(UrlKey(nid, p))[Reqs(UrlKey(nid, p)) + 1]}
         ELSE Universe(nid)

\* fetch_history_page(nid, p) coming back with r: a memoised value costs no
\* request; otherwise one GET is issued, and a returned document (never an
\* exception) is memoised.
Fetch(nid, p, r) ==
    /\ r \in FetchChoices(nid, p)
    /\ calls' = Append(calls, <<nid, p>>)
    /\ IF CacheHit(nid, p)
       THEN UNCHANGED <<served, reqs, cache>>
       ELSE /\ served' = IF Reqs(UrlKey(nid, p)) < Len(Served(UrlKey(nid, p)))
                         THEN served
                         ELSE (UrlKey(nid, p) :> Append(Served(UrlKey(nid, p)), r))
                              @@ served
            /\ reqs' = (UrlKey(nid, p) :> Reqs(UrlKey(nid, p)) + 1) @@ reqs
            /\ cache' = IF memo /\ r.exc = "none"
                        THEN (CacheKey(nid, p) :> r) @@ cache
                        ELSE cache

-----------------------------------------------------------------------------
(* parse_table, find_snapshot, get_snapshot *)

\* parse_table: no striped table gives the empty frame; a table without
\* <thead> or without <tbody> makes .find(...) return None, and the
\* attribute access on it raises.
parse_table(soup) ==
    IF soup.table = "none" THEN [exc |-> "none", rows |-> <<>>]
    ELSE IF soup.table \in {"nothead", "notbody"}
         THEN [exc |-> "AttributeError", rows |-> <<>>]
         ELSE [exc |-> "none", rows |-> soup.rows]

\* datetime.combine(d, datetime.min.time())
Combine(d) == [fmt |-> TRUE, date |-> d, time |-> 0]

Matches(rows, target_date) ==
    SelectSeq(rows, LAMBDA rw : rw.ts.date = target_date.date)

\* A locator that takes the last match instead of the first.
FirstMatch_last(matches) ==
    IF matches = <<>> THEN [exc |-> "none", found |-> FALSE, row |-> None]
    ELSE [exc |-> "none", found |-> TRUE, row |-> matches[Len(matches)].cells]

\* matches.iloc[0] if not matches.empty else None
FirstMatch(matches) ==
    IF matches = <<>> THEN [exc |-> "none", found |-> FALSE, row |-> None]
    ELSE [exc |-> "none", found |-> TRUE, row |-> matches[1].cells]

\* find_snapshot: pd.to_datetime raises on the first cell the format does not
\* match; otherwise the rows are filtered on the date part only.
find_snapshot(rows, target_date) ==
    IF \E k \in 1..Len(rows) : ~rows[k].ts.fmt
    THEN [exc |-> "ValueError", found |-> FALSE, row |-> None]
    ELSE FirstMatch(Matches(rows, target_date))

Absent == [c \in ColumnSet |-> None]

\* One iteration of get_snapshot's loop on page p, the fetch having come back
\* with r: "return" (a match), "stop" (break, or the loop running out),
\* "next" (advance) or "raise".
Iteration(r, target_date, p) ==
    IF r.exc \in Caught THEN [kind |-> "stop", value |-> Absent, exc |-> "none"]
    ELSE IF r.exc # "none" THEN [kind |-> "raise", value |-> Absent, exc |-> r.exc]
    ELSE IF parse_table(r).exc # "none"
         THEN [kind |-> "raise", value |-> Absent, exc |-> parse_table(r).exc]
    ELSE IF parse_table(r).rows = <<>>
         THEN [kind |-> "stop", value |-> Absent, exc |-> "none"]
    ELSE IF find_snapshot(parse_table(r).rows, target_date).exc # "none"
         THEN [kind |-> "raise", value |-> Absent,
               exc |-> find_snapshot(parse_table(r).rows, target_date).exc]
    ELSE IF find_snapshot(parse_table(r).rows, target_date).found
         THEN [kind |-> "return",
               value |-> [c \in ColumnSet |->
                           find_snapshot(parse_table(r).rows, target_date).row[c]],
               exc |-> "none"]
    ELSE IF p < max_pages THEN [kind |-> "next", value |-> Absent, exc |-> "none"]
    ELSE [kind |-> "stop", value |-> Absent, exc |-> "none"]

InSnapshot == pc \in {"snap1", "snap2"}

nid == valid_ids[i]

TargetDate == Combine(IF pc = "snap1" THEN date1 ELSE date2)

Scanned(r) ==
    IF page = 1 THEN << [page |-> page, resp |-> r] >>
    ELSE Append(scan, [page |-> page, resp |-> r])

NoReturn == [call |-> "none", kind |-> "none", value |-> Absent, exc |-> "none"]

NoError == [exc |-> "none", site |-> "none"]

\* get_snapshot hands v back to main.
Returns(v) ==
    /\ ret' = [call |-> pc, kind |-> "returned", value |-> v, exc |-> "none"]
    /\ page' = 1
    /\ IF pc = "snap1"
       THEN snap1' = v /\ pc' = "snap2" /\ UNCHANGED snap2
       ELSE snap2' = v /\ pc' = "row" /\ UNCHANGED snap1
    /\ UNCHANGED error

\* An exception nothing catches ends the script run.
Raises(e) ==
    /\ ret' = IF InSnapshot
              THEN [call |-> pc, kind |-> "raised", value |-> Absent, exc |-> e]
              ELSE ret
    /\ error' = [exc |-> e, site |-> pc]
    /\ pc' = "crashed"
    /\ UNCHANGED <<page, snap1, snap2>>

frame == <<server, memo, nation_input, date1, date2, valid_ids, invalid_ids,
           warning, i, results, df_snapshots, df_diffs, first>>

\* The iteration finds a match on this page (line 104).
SnapshotReturn ==
    /\ InSnapshot
    /\ \E r \in FetchChoices(nid, page) :
         /\ Iteration(r, TargetDate, page).kind = "return"
         /\ Fetch(nid, page, r)
         /\ scan' = Scanned(r)
         /\ Returns(Iteration(r, TargetDate, page).value)
    /\ UNCHANGED <<frame, ruler_name, archiveVars>>

\* The loop is left without a match (lines 98, 101, or the budget): line 106.
SnapshotStop ==
    /\ InSnapshot
    /\ \E r \in FetchChoices(nid, page) :
         /\ Iteration(r, TargetDate, page).kind = "stop"
         /\ Fetch(nid, page, r)
         /\ scan' = Scanned(r)
         /\ Returns(Iteration(r, TargetDate, page).value)
    /\ UNCHANGED <<frame, ruler_name, archiveVars>>

\* No match on this page and budget left: the next page.
SnapshotNext ==
    /\ InSnapshot
    /\ \E r \in FetchChoices(nid, page) :
         /\ Iteration(r, TargetDate, page).kind = "next"
         /\ Fetch(nid, page, r)
         /\ scan' = Scanned(r)
    /\ page' = page + 1
    /\ ret' = NoReturn
    /\ UNCHANGED <<frame, pc, ruler_name, snap1, snap2, error, archiveVars>>

\* The fetch, the decoder or the locator raises what get_snapshot does not catch.
SnapshotRaise ==
    /\ InSnapshot
    /\ \E r \in FetchChoices(nid, page) :
         /\ Iteration(r, TargetDate, page).kind = "raise"
         /\ Fetch(nid, page, r)
         /\ scan' = Scanned(r)
         /\ Raises(Iteration(r, TargetDate, page).exc)
    /\ UNCHANGED <<frame, ruler_name, archiveVars>>

GetSnapshot == SnapshotReturn \/ SnapshotStop \/ SnapshotNext \/ SnapshotRaise

-----------------------------------------------------------------------------
(* main(): the "Fetch & Compare" handler *)

\* A check that only asks for a non-empty token.
isdigit_nonempty(s) == s # <<>>

\* str.isdigit() on the stripped line.
isdigit(s) == AllDigits(s)

\* [line.strip() for line in nation_input.splitlines() if line.strip()]
raw_ids(lines) ==
    LET stripped == [k \in 1..Len(lines) |-> Strip(lines[k])]
    IN  SelectSeq(stripped, LAMBDA s : s # <<>>)

ValidOf(ids) == SelectSeq(ids, isdigit)

InvalidOf(ids) == SelectSeq(ids, LAMBDA s : ~isdigit(s))

\* Lines 157-170: the partition, the warning, and the stop on no valid id.
Validate ==
    /\ pc = "validate"
    /\ valid_ids' = ValidOf(raw_ids(nation_input))
    /\ invalid_ids' = InvalidOf(raw_ids(nation_input))
    /\ warning' = InvalidOf(raw_ids(nation_input))
    /\ pc' = IF ValidOf(raw_ids(nation_input)) = <<>> THEN "input_error" ELSE "name"
    /\ i' = 1
    /\ results' = <<>>
    /\ UNCHANGED <<server, served, reqs, memo, cache, nation_input, date1, date2,
                   ruler_name, snap1, snap2, page, df_snapshots, df_diffs, calls,
                   scan, ret, error, first, archiveVars>>

\* title_text.replace("Nation data for ", "").split(" |")[0], the <title> being
\* a sequence of text tokens (empty when the page has no <title>).
RulerName(title) ==
    LET t == SelectSeq(title, LAMBDA w : w # "Nation data for ")
        bars == {k \in 1..Len(t) : t[k] = " |"}
    IN  IF bars = {} THEN t
        ELSE SubSeq(t, 1, (CHOOSE k \in bars : \A j \in bars : k <= j) - 1)

\* Lines 178-183: the name from page 1, None when the fetch raises a caught error.
NameLookup ==
    /\ pc = "name"
    /\ \E r \in FetchChoices(nid, 1) :
         /\ r.exc \in Caught \cup {"none"}
         /\ Fetch(nid, 1, r)
         /\ ruler_name' = IF r.exc = "none" THEN RulerName(r.title) ELSE None
    /\ pc' = "snap1"
    /\ page' = 1
    /\ UNCHANGED <<frame, snap1, snap2, scan, ret, error, archiveVars>>

\* Line 179 raising what line 182 does not catch.
NameRaise ==
    /\ pc = "name"
    /\ \E r \in FetchChoices(nid, 1) :
         /\ r.exc \notin Caught \cup {"none"}
         /\ Fetch(nid, 1, r)
         /\ Raises(r.exc)
    /\ UNCHANGED <<frame, ruler_name, scan, archiveVars>>

ComparisonRow(id, ruler, d1, s1, d2, s2) ==
    [nid |-> id, ruler |-> ruler, date1 |-> d1, D1 |-> s1, date2 |-> d2, D2 |-> s2]

\* Lines 189-197, and the loop header of line 176.
AppendRow ==
    /\ pc = "row"
    /\ results' = Append(results,
                         ComparisonRow(nid, ruler_name, date1, snap1, date2, snap2))
    /\ IF i < Len(valid_ids)
       THEN i' = i + 1 /\ pc' = "name"
       ELSE i' = i /\ pc' = "sort"
    /\ UNCHANGED <<server, served, reqs, memo, cache, nation_input, date1, date2,
                   valid_ids, invalid_ids, warning, ruler_name, snap1, snap2, page,
                   df_snapshots, df_diffs, calls, scan, ret, error, first,
                   archiveVars>>

\* The order sort_values("Ruler Name") sorts by: text order, None last.
NameTokens == << "Ann", "Bob" >>

Rank(name) ==
    IF name = <<>> THEN 0
    ELSE CHOOSE k \in 1..Len(NameTokens) : NameTokens[k] = name[1]

NameLE(a, b) == b = None \/ (a # None /\ Rank(a) <= Rank(b))

\* The orders sort_values can leave the rows in: sorted by name; rows with equal
\* names in any order (the default sort is not stable).
Sortings(rows) ==
    { [k \in 1..Len(rows) |-> rows[f[k]]] :
        f \in { g \in [1..Len(rows) -> 1..Len(rows)] :
                  /\ \A a, b \in 1..Len(rows) : a # b => g[a] # g[b]
                  /\ \A a, b \in 1..Len(rows) :
                       a < b => NameLE(rows[g[a]].ruler, rows[g[b]].ruler) } }

\* Lines 199-200.
SortSnapshots ==
    /\ pc = "sort"
    /\ df_snapshots' \in Sortings(results)
    /\ pc' = "diffs"
    /\ UNCHANGED <<server, served, reqs, memo, cache, nation_input, date1, date2,
                   valid_ids, invalid_ids, warning, i, ruler_name, snap1, snap2,
                   page, results, df_diffs, calls, scan, ret, error, first,
                   archiveVars>>

\* Lines 217-239: value at date 2 minus value at date 1, both through to_int.
Diff(row, col) == to_int(row.D2[col]) - to_int(row.D1[col])

\* "x if x > 0 else 0" and "x if x < 0 else 0" of lines 246-255.
NetGain(diff) == IF diff > 0 THEN diff ELSE 0

\* A loss reported as a magnitude.
NetLoss_magnitude(diff) == IF diff < 0 THEN 0 - diff ELSE 0

NetLoss(diff) == IF diff < 0 THEN diff ELSE 0

\* Lines 241-258.
DiffRow(row) ==
    [ nid |-> row.nid, ruler |-> row.ruler,
      date1 |-> row.date1, date2 |-> row.date2,
      net |-> ( "Net Tech Gain" :> NetGain(Diff(row, "Tech")) )
           @@ ( "Net Tech Loss" :> NetLoss(Diff(row, "Tech")) )
           @@ ( "Net Infra Gain" :> NetGain(Diff(row, "Infra")) )
           @@ ( "Net Infra Loss" :> NetLoss(Diff(row, "Infra")) )
           @@ ( "Net Land Gain" :> NetGain(Diff(row, "Land")) )
           @@ ( "Net Land Loss" :> NetLoss(Diff(row, "Land")) )
           @@ ( "Net NS Gain" :> NetGain(Diff(row, "NS")) )
           @@ ( "Net NS Loss" :> NetLoss(Diff(row, "NS")) )
           @@ ( "Net Nukes Gain" :> NetGain(Diff(row, "Nukes")) )
           @@ ( "Net Nukes Loss" :> NetLoss(Diff(row, "Nukes")) )
           @@ ( "Net Off. Casualties" :> Diff(row, "Off. Casualties") )
           @@ ( "Net Def. Casualties" :> Diff(row, "Def. Casualties") ) ]

diff_rows(df) == [k \in 1..Len(df) |-> DiffRow(df[k])]

\* Lines 205-260: one difference row per snapshot row, then the sort.
BuildDiffs ==
    /\ pc = "diffs"
    /\ df_diffs' \in Sortings(diff_rows(df_snapshots))
    /\ pc' = "done"
    /\ UNCHANGED <<server, served, reqs, memo, cache, nation_input, date1, date2,
                   valid_ids, invalid_ids, warning, i, ruler_name, snap1, snap2,
                   page, results, df_snapshots, calls, scan, ret, error, first,
                   archiveVars>>

-----------------------------------------------------------------------------
(* Initial states and specifications *)

Dates == {1, 2}

NoFirst == [set |-> FALSE, pc |-> "none", exc |-> "none",
            df_snapshots |-> <<>>, df_diffs |-> <<>>]

ArchiveIdle ==
    /\ downloads = <<>>
    /\ cand = 1
    /\ df_alliances = [none |-> TRUE, columns |-> {}, rows |-> <<>>]
    /\ alliances = <<>>
    /\ member_ids = <<>>
    /\ apc = "idle"

\* The state of a script run before the button handler starts.
FreshRun ==
    /\ reqs = <<>>
    /\ cache = <<>>
    /\ invalid_ids = <<>>
    /\ warning = <<>>
    /\ i = 1
    /\ ruler_name = None
    /\ page = 1
    /\ df_diffs = <<>>
    /\ calls = <<>>
    /\ scan = <<>>
    /\ ret = NoReturn
    /\ error = NoError

\* get_snapshot called twice for one nation, as main does, on any server.
InitResolve ==
    /\ server = "any"
    /\ served = <<>>
    /\ memo = TRUE
    /\ nation_input = << << "1" >> >>
    /\ date1 = 1
    /\ date2 = 1
    /\ FreshRun
    /\ snap1 = Absent
    /\ snap2 = Absent
    /\ results = <<>>
    /\ df_snapshots = <<>>
    /\ pc = "snap1"
    /\ valid_ids = << << "1" >> >>
    /\ first = NoFirst
    /\ ArchiveIdle

SpecResolve == InitResolve /\ [][GetSnapshot]_vars

\* The same two calls on a server whose every answer is a document.
InitDocuments ==
    /\ server = "documents"
    /\ served = <<>>
    /\ memo = TRUE
    /\ nation_input = << << "1" >> >>
    /\ date1 = 1
    /\ date2 = 1
    /\ FreshRun
    /\ snap1 = Absent
    /\ snap2 = Absent
    /\ results = <<>>
    /\ df_snapshots = <<>>
    /\ pc = "snap1"
    /\ valid_ids = << << "1" >> >>
    /\ first = NoFirst
    /\ ArchiveIdle

SpecDocuments == InitDocuments /\ [][GetSnapshot]_vars

InputLines == { << "1" >>, << " ", "2" >>, << "a" >>, << " " >> }

InitBatch ==
    /\ server = "batch"
    /\ served = <<>>
    /\ memo = TRUE
    /\ nation_input \in StringsOver(InputLines, MaxLines)
    /\ date1 = 1
    /\ date2 = 2
    /\ FreshRun
    /\ snap1 = Absent
    /\ snap2 = Absent
    /\ results = <<>>
    /\ df_snapshots = <<>>
    /\ valid_ids = <<>>
    /\ pc = "validate"
    /\ first = NoFirst
    /\ ArchiveIdle

Handler ==
    \/ Validate
    \/ NameLookup
    \/ NameRaise
    \/ GetSnapshot
    \/ AppendRow
    \/ SortSnapshots
    \/ BuildDiffs

SpecBatch == InitBatch /\ [][Handler]_vars


\* The delta engine alone: BuildDiffs on a one-row snapshot table whose cells
\* are any text, or None throughout when the snapshot was not found.
CellChars == {"1", "-", "."}

ExtraCells ==
    { << "a" >>, << " ", "1", " " >>, << "1", "0", "0" >>, << "8", "0" >>,
      << "+", "1" >>, << "1", "2", ".", "5" >> }

CellValues == StringsOver(CellChars, MaxLen) \cup ExtraCells \cup {None}

Metrics ==
    {"Tech", "Infra", "Land", "NS", "Nukes", "Off. Casualties", "Def. Casualties"}

\* A snapshot: all-absent (None), or a found row with v in column m.
SnapshotWith(m, v) ==
    IF v = None THEN Absent
    ELSE [c \in ColumnSet |-> IF c = m THEN v ELSE << "1" >>]

InitDelta ==
    /\ server = "batch"
    /\ served = <<>>
    /\ memo = TRUE
    /\ nation_input = << << "1" >> >>
    /\ date1 = 1
    /\ date2 = 2
    /\ FreshRun
    /\ valid_ids = << << "1" >> >>
    /\ pc = "diffs"
    /\ first = NoFirst
    /\ ArchiveIdle
    /\ \E m \in Metrics, a \in CellValues, b \in CellValues :
         /\ snap1 = SnapshotWith(m, a)
         /\ snap2 = SnapshotWith(m, b)
         /\ results = << ComparisonRow(<< "1" >>, << "Ann" >>, 1, snap1, 2, snap2) >>
         /\ df_snapshots = results

SpecDelta == InitDelta /\ [][BuildDiffs]_vars

-----------------------------------------------------------------------------
(* The same handler run again without the memoising layer *)

Ended == pc \in {"done", "crashed", "input_error"}

Outputs ==
    [set |-> TRUE, pc |-> pc, exc |-> error.exc,
     df_snapshots |-> df_snapshots, df_diffs |-> df_diffs]

\* A second script run against the same server answers, every
\* fetch_history_page call now going to the network.
Rerun ==
    /\ Ended
    /\ ~first.set
    /\ first' = Outputs
    /\ memo' = FALSE
    /\ reqs' = <<>>
    /\ cache' = <<>>
    /\ valid_ids' = <<>>
    /\ invalid_ids' = <<>>
    /\ warning' = <<>>
    /\ i' = 1
    /\ ruler_name' = None
    /\ snap1' = Absent
    /\ snap2' = Absent
    /\ page' = 1
    /\ results' = <<>>
    /\ df_snapshots' = <<>>
    /\ df_diffs' = <<>>
    /\ calls' = <<>>
    /\ scan' = <<>>
    /\ ret' = NoReturn
    /\ error' = NoError
    /\ pc' = "validate"
    /\ UNCHANGED <<server, served, nation_input, date1, date2, archiveVars>>

InitCache ==
    /\ server = "two pages"
    /\ served = <<>>
    /\ memo = TRUE
    /\ nation_input = << << "1" >> >>
    /\ date1 \in Dates
    /\ date2 \in Dates
    /\ FreshRun
    /\ snap1 = Absent
    /\ snap2 = Absent
    /\ results = <<>>
    /\ df_snapshots = <<>>
    /\ valid_ids = <<>>
    /\ pc = "validate"
    /\ first = NoFirst
    /\ ArchiveIdle

SpecCache == InitCache /\ [][Handler \/ Rerun]_vars

-----------------------------------------------------------------------------
(* load_data and the alliance dropdown *)

\* Yesterday tried before today.
dates_to_try_yesterday_first == << -1, 0, 1 >>

\* dates_to_try as day offsets from today: today, yesterday, tomorrow.
dates_to_try == << 0, -1, 1 >>

\* The two file name suffixes, url1 then url2.
suffixes == << "510001.zip", "510002.zip" >>

\* The downloads load_data would issue if none succeeded, in order: for each
\* date url1, then (df being None) url2.
Candidates ==
    [k \in 1..(Len(dates_to_try) * Len(suffixes)) |->
        [dt |-> dates_to_try[((k - 1) \div Len(suffixes)) + 1],
         suffix |-> suffixes[((k - 1) % Len(suffixes)) + 1]]]

NoneTable == [none |-> TRUE, columns |-> {}, rows |-> <<>>]

Table(cols, rows) == [none |-> FALSE, columns |-> cols, rows |-> rows]

Member(a, id) == [Alliance |-> a, NationID |-> id]

FoTW == "Freehold of The Wolves"

\* Alliance names in sorted() order.
AllianceNames == << "Alpha", FoTW, "Zeta" >>

ArchiveTables ==
    { Table({"Nation ID", "Alliance"},
            << Member(FoTW, << "1" >>), Member("Alpha", << "2" >>),
               Member(FoTW, << "3" >>) >>),
      Table({"Nation ID", "Alliance"}, << Member("Zeta", << "2" >>) >>),
      Table({"Nation ID"}, << Member("Zeta", << "2" >>) >>),
      Table({"Nation ID", "Alliance"}, <<>>) }

\* How one download_and_extract_zip call can end: the GET or raise_for_status
\* raising RequestException, the archive or the CSV failing to decode, an
\* archive with no member, or a decoded table.
ArchiveOutcomes ==
    { [kind |-> k, table |-> NoneTable] :
        k \in {"RequestException", "DecodeException", "EmptyZip"} }
    \cup { [kind |-> "ok", table |-> t] : t \in ArchiveTables }

\* download_and_extract_zip's return value.
download_and_extract_zip(o) == IF o.kind = "ok" THEN o.table ELSE NoneTable

Downloaded(o) ==
    Append(downloads, [dt |-> Candidates[cand].dt,
                       suffix |-> Candidates[cand].suffix,
                       kind |-> o.kind,
                       table |-> download_and_extract_zip(o)])

\* A download that yields a table: load_data returns it (line 64).
DownloadOk ==
    /\ apc = "load"
    /\ \E o \in ArchiveOutcomes :
         /\ ~download_and_extract_zip(o).none
         /\ downloads' = Downloaded(o)
         /\ df_alliances' = download_and_extract_zip(o)
    /\ apc' = "loaded"
    /\ UNCHANGED <<cand, alliances, member_ids, batchVars>>

\* A download that yields None: the next candidate, or None after the last.
DownloadFails ==
    /\ apc = "load"
    /\ \E o \in ArchiveOutcomes :
         /\ download_and_extract_zip(o).none
         /\ downloads' = Downloaded(o)
    /\ IF cand < Len(Candidates)
       THEN cand' = cand + 1 /\ apc' = apc /\ UNCHANGED df_alliances
       ELSE cand' = cand /\ apc' = "loaded" /\ df_alliances' = NoneTable
    /\ UNCHANGED <<alliances, member_ids, batchVars>>

Usable(df) ==
    ~df.none /\ "Alliance" \in df.columns /\ "Nation ID" \in df.columns

\* sorted(df["Alliance"].dropna().unique())
SortedAlliances(df) ==
    SelectSeq(AllianceNames,
              LAMBDA a : \E k \in 1..Len(df.rows) : df.rows[k].Alliance = a)

\* alliances[default_index]
DefaultAlliance(as) ==
    IF \E k \in 1..Len(as) : as[k] = FoTW THEN FoTW ELSE as[1]

MembersOf(df, a) ==
    LET rs == SelectSeq(df.rows, LAMBDA rw : rw.Alliance = a)
    IN  [k \in 1..Len(rs) |-> rs[k].NationID]

\* Lines 116-128: the dropdown, with the fallback to the default alliance.
Dropdown ==
    /\ apc = "loaded"
    /\ ~Usable(df_alliances) \/ SortedAlliances(df_alliances) # <<>>
    /\ IF ~Usable(df_alliances)
       THEN /\ alliances' = << FoTW >>
            /\ member_ids' = <<>>
       ELSE /\ alliances' = SortedAlliances(df_alliances)
            /\ member_ids' =
                 MembersOf(df_alliances, DefaultAlliance(SortedAlliances(df_alliances)))
    /\ apc' = "ready"
    /\ UNCHANGED <<downloads, cand, df_alliances, batchVars>>

\* Line 127 on a table without any alliance: alliances[0] raises IndexError.
DropdownRaise ==
    /\ apc = "loaded"
    /\ Usable(df_alliances)
    /\ SortedAlliances(df_alliances) = <<>>
    /\ apc' = "crashed"
    /\ UNCHANGED <<downloads, cand, df_alliances, alliances, member_ids, batchVars>>

InitArchive ==
    /\ server = "batch"
    /\ served = <<>>
    /\ memo = TRUE
    /\ nation_input = <<>>
    /\ date1 = 1
    /\ date2 = 2
    /\ FreshRun
    /\ snap1 = Absent
    /\ snap2 = Absent
    /\ results = <<>>
    /\ df_snapshots = <<>>
    /\ valid_ids = <<>>
    /\ pc = "idle"
    /\ first = NoFirst
    /\ downloads = <<>>
    /\ cand = 1
    /\ df_alliances = NoneTable
    /\ alliances = <<>>
    /\ member_ids = <<>>
    /\ apc = "load"

LoadData == DownloadOk \/ DownloadFails \/ Dropdown \/ DropdownRaise

SpecArchive == InitArchive /\ [][LoadData]_vars

Spec == SpecBatch

-----------------------------------------------------------------------------
(* Observations the properties are stated with *)

\* The target date of the get_snapshot call that `scan` and `ret` describe.
CallTarget ==
    IF ret.call = "snap1" THEN date1
    ELSE IF ret.call = "snap2" THEN date2
    ELSE IF pc = "snap1" THEN date1 ELSE date2

CallEnded == ret.kind # "none"

ReturnedAbsent == ret.kind = "returned" /\ ret.value = Absent

IsDocument(r) == r.exc = "none"

\* The rows a reader of the page sees in its striped table.
VisibleRows(r) == IF IsDocument(r) /\ r.table = "ok" THEN r.rows ELSE <<>>

OnDate(rw, d) == rw.ts.fmt /\ rw.ts.date = d

HasMatch(r, d) == \E k \in 1..Len(VisibleRows(r)) : OnDate(VisibleRows(r)[k], d)

\* The page is a HistoryPage of the data model: every timestamp parses.
WellFormed(r) ==
    IsDocument(r) /\ r.table = "ok"
    /\ \A k \in 1..Len(r.rows) : r.rows[k].ts.fmt

\* The cells of the first row, in document order, dated d.
FirstOnDate(r, d) ==
    LET ks == {k \in 1..Len(VisibleRows(r)) : OnDate(VisibleRows(r)[k], d)}
    IN  VisibleRows(r)[CHOOSE k \in ks : \A j \in ks : k <= j].cells

LastScanned == scan[Len(scan)]

-----------------------------------------------------------------------------
(* C1 *)

\* C1: whenever a page fetch of get_snapshot meets a transport error of any
\* kind, that page is the last one the call fetches, the call does not raise
\* and it returns the all-absent Snapshot.
C1_TransportErrorStops ==
    \A k \in 1..Len(scan) :
        scan[k].resp.exc \in TransportErrors
            => k = Len(scan) /\ ReturnedAbsent

(* C2 *)

\* C2: a get_snapshot call that ended without any fetched page holding a
\* record dated the target date returned the all-absent Snapshot (it did not
\* raise), whatever the pages held, and fetched at most max_pages pages.
C2_NoMatchIsAbsent ==
    (CallEnded /\ \A k \in 1..Len(scan) : ~HasMatch(scan[k].resp, CallTarget))
        => ReturnedAbsent /\ Len(scan) <= max_pages

(* C3 *)

\* A page that decodes to zero records: no striped table, a table without its
\* header, or an empty table body.
ZeroRecords(r) ==
    IsDocument(r) /\ (r.table \in {"none", "nothead"} \/ (r.table = "ok" /\ r.rows = <<>>))

RecordsButNoMatch(r, d) == WellFormed(r) /\ r.rows # <<>> /\ ~HasMatch(r, d)

\* C3: when pages 1..k-1 each hold records but no date match and page k
\* decodes to zero records, the call fetches exactly pages 1..k and returns
\* the all-absent Snapshot without an error.
C3_EarlyExhaustion ==
    \A k \in 1..Len(scan) :
        ( /\ \A j \in 1..(k - 1) : RecordsButNoMatch(scan[j].resp, CallTarget)
          /\ ZeroRecords(scan[k].resp) )
            => /\ Len(scan) = k
               /\ \A j \in 1..k : scan[j].page = j
               /\ ReturnedAbsent

(* C4 *)

\* C4: get_snapshot fetches pages 1, 2, 3, ... in order; a call that returns a
\* record returns the first record in document order dated the target date
\* (time of day ignored) of the page it fetched last, no earlier page holding
\* such a record and no later page being fetched; a fetched HistoryPage that
\* holds such a record ends the call with that record; and a repeated call for
\* the same date over the same pages returns the same record.
C4_FirstMatchWins ==
    /\ \A k \in 1..Len(scan) : scan[k].page = k
    /\ (ret.kind = "returned" /\ ret.value # Absent)
         => /\ HasMatch(LastScanned.resp, CallTarget)
            /\ ret.value = FirstOnDate(LastScanned.resp, CallTarget)
            /\ \A j \in 1..(Len(scan) - 1) : ~HasMatch(scan[j].resp, CallTarget)
    /\ (scan # <<>> /\ WellFormed(LastScanned.resp)
          /\ HasMatch(LastScanned.resp, CallTarget))
         => /\ ret.kind = "returned"
            /\ ret.value = FirstOnDate(LastScanned.resp, CallTarget)
    /\ (ret.call = "snap2" /\ ret.kind = "returned" /\ date1 = date2
          /\ snap1 # Absent)
         => snap2 = snap1

\* The match is found on page 2, which holds two records of the target date,
\* the first of them not at midnight.
C4_Witness ==
    /\ ret.kind = "returned"
    /\ Len(scan) = 2
    /\ Len(VisibleRows(LastScanned.resp)) = 2
    /\ \A k \in 1..2 : OnDate(LastScanned.resp.rows[k], CallTarget)
    /\ LastScanned.resp.rows[1].ts.time # 0
    /\ LastScanned.resp.rows[1].cells # LastScanned.resp.rows[2].cells
    /\ ret.value = LastScanned.resp.rows[1].cells

-----------------------------------------------------------------------------
(* C5, C6: the delta engine *)

SplitMetrics == {"Tech", "Infra", "Land", "NS", "Nukes"}

GainColumn(m) ==
    CASE m = "Tech" -> "Net Tech Gain" [] m = "Infra" -> "Net Infra Gain"
      [] m = "Land" -> "Net Land Gain" [] m = "NS" -> "Net NS Gain"
      [] m = "Nukes" -> "Net Nukes Gain"

LossColumn(m) ==
    CASE m = "Tech" -> "Net Tech Loss" [] m = "Infra" -> "Net Infra Loss"
      [] m = "Land" -> "Net Land Loss" [] m = "NS" -> "Net NS Loss"
      [] m = "Nukes" -> "Net Nukes Loss"

\* C5: in every difference row, for each of Tech, Infra, Land, NS and Nukes,
\* with delta the integer value at date 2 minus the integer value at date 1:
\* gain is delta if delta > 0 else 0, loss is delta if delta < 0 else 0, so
\* gain + loss = delta, at most one of them is nonzero, and both are 0 when
\* the two values are equal.
C5_SignedReconstruction ==
    pc = "done" =>
      \A k \in 1..Len(df_diffs) : \A m \in SplitMetrics :
        \E r \in 1..Len(df_snapshots) :
          /\ df_snapshots[r].nid = df_diffs[k].nid
          /\ LET delta == to_int(df_snapshots[r].D2[m]) - to_int(df_snapshots[r].D1[m])
                 gain == df_diffs[k].net[GainColumn(m)]
                 loss == df_diffs[k].net[LossColumn(m)]
             IN  /\ gain + loss = delta
                 /\ gain = 0 \/ loss = 0
                 /\ gain >= 0 /\ loss <= 0
                 /\ (delta > 0 => gain = delta)
                 /\ (delta < 0 => loss = delta)
                 /\ (to_int(df_snapshots[r].D2[m]) = to_int(df_snapshots[r].D1[m])
                       => gain = 0 /\ loss = 0)

\* Tech 100 at date 1 and 80 at date 2: gain 0, loss -20.
C5_Witness ==
    /\ pc = "done"
    /\ Len(df_diffs) = 1
    /\ df_snapshots[1].D1["Tech"] = << "1", "0", "0" >>
    /\ df_snapshots[1].D2["Tech"] = << "8", "0" >>
    /\ df_diffs[1].net["Net Tech Gain"] = 0
    /\ df_diffs[1].net["Net Tech Loss"] = 0 - 20

\* A decimal numeral: optional sign, digits, optionally a point and digits.
PointAt(s) == {k \in 1..Len(s) : s[k] = "."}

WholePart(s) ==
    IF PointAt(s) = {} THEN s
    ELSE SubSeq(s, 1, (CHOOSE k \in PointAt(s) : TRUE) - 1)

FractionPart(s) ==
    IF PointAt(s) = {} THEN <<>>
    ELSE SubSeq(s, (CHOOSE k \in PointAt(s) : TRUE) + 1, Len(s))

IsNumeric(v) ==
    /\ v # None
    /\ Cardinality(PointAt(Unsigned(Strip(v)))) <= 1
    /\ AllDigits(WholePart(Unsigned(Strip(v))))
    /\ FractionPart(Unsigned(Strip(v))) = <<>>
         \/ AllDigits(FractionPart(Unsigned(Strip(v))))

\* The integer value of a numeric cell; 0 for a missing or non-numeric one.
IntegerValue(v) ==
    IF ~IsNumeric(v) THEN 0
    ELSE IF Head(Strip(v)) = "-"
         THEN 0 - DecimalValue(WholePart(Unsigned(Strip(v))))
         ELSE DecimalValue(WholePart(Unsigned(Strip(v))))

DeltaOf(d, m) ==
    IF m \in SplitMetrics THEN d.net[GainColumn(m)] + d.net[LossColumn(m)]
    ELSE IF m = "Off. Casualties" THEN d.net["Net Off. Casualties"]
    ELSE d.net["Net Def. Casualties"]

\* C6: every missing or non-numeric metric value counts as 0 and every numeric
\* value as its own integer value, so each emitted delta is the integer value
\* at date 2 minus the integer value at date 1; with one snapshot all-absent
\* it is plus or minus the value found, with both all-absent it is 0.
C6_CoercionFallback ==
    pc = "done" =>
      \A m \in Metrics :
        DeltaOf(df_diffs[1], m) =
          IntegerValue(df_snapshots[1].D2[m]) - IntegerValue(df_snapshots[1].D1[m])

-----------------------------------------------------------------------------
(* C7: load_data *)

ExpectedProbes ==
    << [dt |-> 0, suffix |-> "510001.zip"], [dt |-> 0, suffix |-> "510002.zip"],
       [dt |-> -1, suffix |-> "510001.zip"], [dt |-> -1, suffix |-> "510002.zip"],
       [dt |-> 1, suffix |-> "510001.zip"], [dt |-> 1, suffix |-> "510002.zip"] >>

AllFailed == \A k \in 1..Len(downloads) : downloads[k].kind # "ok"

\* C7: load_data downloads (today, 1), (today, 2), (yesterday, 1),
\* (yesterday, 2), (tomorrow, 1), (tomorrow, 2) in that order, stops at the
\* first download that decodes and returns its table, never raises on a
\* failed candidate, returns None exactly when all six failed, and main then
\* offers the one default alliance with no member.
C7_ArchiveOrder ==
    /\ Len(downloads) <= Len(ExpectedProbes)
    /\ \A k \in 1..Len(downloads) :
         /\ downloads[k].dt = ExpectedProbes[k].dt
         /\ downloads[k].suffix = ExpectedProbes[k].suffix
    /\ \A k \in 1..(Len(downloads) - 1) : downloads[k].kind # "ok"
    /\ apc = "load" => AllFailed /\ Len(downloads) < Len(ExpectedProbes)
    /\ apc # "load" =>
         /\ df_alliances.none <=> (AllFailed /\ Len(downloads) = Len(ExpectedProbes))
         /\ ~df_alliances.none =>
              /\ downloads[Len(downloads)].kind = "ok"
              /\ df_alliances = downloads[Len(downloads)].table
    /\ apc = "crashed" => ~df_alliances.none
    /\ (apc = "ready" /\ df_alliances.none) =>
         alliances = << FoTW >> /\ member_ids = <<>>

\* Both variants fail for today and yesterday, a variant of tomorrow succeeds.
C7_Witness ==
    /\ apc = "ready"
    /\ Len(downloads) >= 5
    /\ downloads[Len(downloads)].kind = "ok"
    /\ downloads[Len(downloads)].dt = 1
    /\ ~df_alliances.none

-----------------------------------------------------------------------------
(* C8, C9: the batch *)

IsBlank(line) == \A k \in 1..Len(line) : line[k] = " "

\* The line without its leading and trailing blanks.
Trimmed(line) ==
    LET ks == {k \in 1..Len(line) : line[k] # " "}
        lo == CHOOSE k \in ks : \A j \in ks : k <= j
        hi == CHOOSE k \in ks : \A j \in ks : k >= j
    IN  SubSeq(line, lo, hi)

\* The tokens of the input, in input order.
RECURSIVE Tokens(_)
Tokens(lines) ==
    IF lines = <<>> THEN <<>>
    ELSE IF IsBlank(Head(lines)) THEN Tokens(Tail(lines))
    ELSE << Trimmed(Head(lines)) >> \o Tokens(Tail(lines))

OnlyDigits(t) ==
    \A k \in 1..Len(t) : t[k] \in {"0", "1", "2", "3", "4", "5", "6", "7", "8", "9"}

RECURSIVE Keep(_, _)
Keep(ts, wantDigits) ==
    IF ts = <<>> THEN <<>>
    ELSE IF OnlyDigits(Head(ts)) = wantDigits
         THEN << Head(ts) >> \o Keep(Tail(ts), wantDigits)
         ELSE Keep(Tail(ts), wantDigits)

IdsOf(rows) == [k \in 1..Len(rows) |-> rows[k].nid]

Count(seq, x) == Cardinality({k \in 1..Len(seq) : seq[k] = x})

SameBag(a, b) ==
    /\ Len(a) = Len(b)
    /\ \A k \in 1..Len(a) : Count(a, a[k]) = Count(b, a[k])

\* C8: once the input is validated, the all-digit tokens are the valid list and
\* the other tokens the invalid (warning) list, each in input order and none
\* dropped; no fetch is ever issued for an identifier that is not valid; the
\* batch stops with the input error exactly when no token is valid, and then
\* no fetch is issued and no table is produced.
C8_InputValidation ==
    /\ pc # "validate" =>
         /\ valid_ids = Keep(Tokens(nation_input), TRUE)
         /\ invalid_ids = Keep(Tokens(nation_input), FALSE)
         /\ warning = invalid_ids
         /\ Len(valid_ids) + Len(invalid_ids) = Len(Tokens(nation_input))
         /\ (pc = "input_error") <=> (valid_ids = <<>>)
    /\ \A k \in 1..Len(calls) :
         /\ OnlyDigits(calls[k][1])
         /\ \E j \in 1..Len(valid_ids) : valid_ids[j] = calls[k][1]
         /\ \A j \in 1..Len(invalid_ids) : invalid_ids[j] # calls[k][1]
    /\ pc = "input_error" =>
         calls = <<>> /\ results = <<>> /\ df_snapshots = <<>> /\ df_diffs = <<>>

\* Two valid identifiers around an invalid one: both are processed, the
\* invalid one is in the warning.
C8_Witness ==
    /\ pc = "done"
    /\ Len(nation_input) = 3
    /\ valid_ids = << << "1" >>, << "2" >> >>
    /\ warning = << << "a" >> >>
    /\ Len(df_diffs) = 2
    /\ calls # <<>>

\* C9: a failed first-page fetch of the name lookup, whatever the failure,
\* never ends the run, and a finished run has one snapshot row and one
\* difference row per valid identifier, over the same Nation IDs.
C9_NoAbort ==
    /\ error.site # "name"
    /\ pc = "done" =>
         /\ SameBag(IdsOf(df_snapshots), valid_ids)
         /\ SameBag(IdsOf(df_diffs), valid_ids)

-----------------------------------------------------------------------------
(* C10: with and without the memoising layer *)

\* The server gave one answer per (nation, page), whenever asked.
Stable ==
    \A key \in DOMAIN served :
        \A a, b \in 1..Len(served[key]) : served[key][a] = served[key][b]

Compared == first.set /\ ~memo /\ Ended

\* C10 as stated: for every sequence of server answers, a finished run without
\* the memoising layer and the finished memoised run produce the same tables
\* (same display name, same two Snapshots, same difference row).
C10_CacheTransparent ==
    (Compared /\ pc = "done" /\ first.pc = "done")
        => df_snapshots = first.df_snapshots /\ df_diffs = first.df_diffs

\* C10 amended: when the server answers every request for the same
\* (nation, page) alike, the run without the memoising layer ends as the
\* memoised run did (finished, or stopped by the same exception), with the
\* same snapshot and difference tables.
C10_CacheTransparentOnStableFeed == (Compared /\ Stable) => Outputs = first

\* Both runs finished on a stable feed, a snapshot was found on page 2, and
\* the run without the layer asked the server for page 1 more than once.
C10_Witness ==
    /\ Compared /\ Stable
    /\ pc = "done"
    /\ first.pc = "done"
    /\ Reqs(UrlKey(<< "1" >>, 1)) > 1
    /\ \E k \in 1..Len(calls) : calls[k][2] = 2
    /\ df_snapshots[1].D2 # Absent
    /\ df_diffs[1].net["Net Tech Gain"] + df_diffs[1].net["Net Tech Loss"] # 0

====
